---- MODULE Spec2Model ----
(***************************************************************************)
(* Model of motion_design.py: the timeline compositor make_frame, the      *)
(* easing functions it relies on, and the process-wide NumPy generator     *)
(* that draw_floating_particles reseeds and draws from.                    *)
(*                                                                         *)
(* Times are exact rationals n/Res (a pair <<num, den>> in lowest terms);  *)
(* the generator is the pair (seed, number of draws since the seed), and   *)
(* a draw returns the symbol <<seed, pos>>: the pos-th output of the       *)
(* stream that seed starts.                                                *)
(***************************************************************************)
EXTENDS Integers, Sequences, FiniteSets, TLC

\* ---------------------------------------------------------------- bounds
\* Time resolution: a time is n/Res seconds.
Res == 10
\* Times range over [-NegSecs, DURATION + PosSecs] seconds.
NegSecs == 29
PosSecs == 5
\* Particles drawn per call are capped at ParticleCap.
ParticleCap == 1
\* The sequential and threaded specifications call make_frame at every
\* SeqStride-th whole second of the range.
SeqStride == 6
\* Easing arguments of the endpoint calls range over -EaseRange..EaseRange+1.
EaseRange == 2
\* alpha and t of the colour utilities range over the quarters of
\* [-AlphaRange, AlphaRange].
AlphaRange == 2
\* Rectangle coordinates and radii range over 0..RectMax.
RectMax == 3
\* draw_floating_particles is called directly with count in 0..MaxCount.
MaxCount == 2

\* --------------------------------------------------------- configuration
FPS == 30
DURATION == 24
\* the literal 6 of "scene_dur = DURATION / 6"
SceneDivisor == 6
\* the literal 5 of "min(5, ...)" and of "scene_idx < 5"
LastScene == 5

COLORS ==
  [ bg_dark |-> <<10, 10, 20>>, bg_card |-> <<20, 22, 40>>,
    primary |-> <<90, 100, 255>>, accent_blue |-> <<60, 140, 255>>,
    accent_purple |-> <<140, 80, 255>>, accent_cyan |-> <<0, 210, 255>>,
    accent_pink |-> <<255, 80, 160>>, accent_green |-> <<0, 220, 130>>,
    accent_orange |-> <<255, 160, 40>>, white |-> <<255, 255, 255>>,
    gray |-> <<140, 140, 170>>, dark_gray |-> <<60, 60, 90>> ]

\* ------------------------------------------------------ exact rationals
Abs(x) == IF x < 0 THEN -x ELSE x
Min(a, b) == IF a <= b THEN a ELSE b
Max(a, b) == IF a >= b THEN a ELSE b

RECURSIVE GCD(_, _)
GCD(a, b) == IF b = 0 THEN a ELSE GCD(b, a % b)

\* n/d in lowest terms with a positive denominator (d # 0)
Rat(n, d) ==
  LET s == IF d < 0 THEN -1 ELSE 1
      g == GCD(Abs(n), Abs(d))
  IN  <<(s * n) \div g, Abs(d) \div g>>

RInt(k) == <<k, 1>>
RAdd(a, b) == Rat(a[1] * b[2] + b[1] * a[2], a[2] * b[2])
RSub(a, b) == Rat(a[1] * b[2] - b[1] * a[2], a[2] * b[2])
RMul(a, b) == Rat(a[1] * b[1], a[2] * b[2])
RDiv(a, b) == Rat(a[1] * b[2], a[2] * b[1])
RLt(a, b) == a[1] * b[2] < b[1] * a[2]
RLe(a, b) == a[1] * b[2] <= b[1] * a[2]
RMin(a, b) == IF RLe(a, b) THEN a ELSE b
RMax(a, b) == IF RLe(b, a) THEN a ELSE b

\* Python's int(x) on a float: truncation toward zero
PyInt(a) == IF a[1] >= 0 THEN a[1] \div a[2] ELSE -((-a[1]) \div a[2])

\* the time n ticks
Time(n) == Rat(n, Res)
Ticks == (-(NegSecs * Res)) .. ((DURATION + PosSecs) * Res)

\* ----------------------------------------------------------------- easing
\* variant: the argument is not clamped to [0, 1]
ease_in_out_cubic_unclamped(t) ==
  LET u == RAdd(RMul(RInt(-2), t), RInt(2))
  IN  IF RLt(t, <<1, 2>>)
      THEN RMul(RInt(4), RMul(t, RMul(t, t)))
      ELSE RSub(RInt(1), RDiv(RMul(u, RMul(u, u)), RInt(2)))

\* ease_in_out_cubic, in exact arithmetic
ease_in_out_cubic(t0) ==
  LET t == RMax(RInt(0), RMin(RInt(1), t0))
      u == RAdd(RMul(RInt(-2), t), RInt(2))
  IN  IF RLt(t, <<1, 2>>)
      THEN RMul(RInt(4), RMul(t, RMul(t, t)))
      ELSE RSub(RInt(1), RDiv(RMul(u, RMul(u, u)), RInt(2)))

\* ------------------------------------------------------- scene resolution
scenes == << "scene_intro", "scene_models", "scene_routing",
             "scene_comparison", "scene_pricing", "scene_outro" >>

\* Python's list indexing: a negative index counts from the end, and an
\* index outside -len..len-1 raises IndexError
PyIndexOk(seq, i) == (-Len(seq)) <= i /\ i < Len(seq)
PyIndex(seq, i) == IF i >= 0 THEN seq[i + 1] ELSE seq[Len(seq) + i + 1]

scene_dur == Rat(DURATION, SceneDivisor)

\* variant: an exact scene boundary still belongs to the scene that ends there
SceneIdxBoundaryOld(t) ==
  LET q == RDiv(t, scene_dur)
  IN  Min(LastScene, IF q[2] = 1 /\ q[1] > 0 THEN q[1] - 1 ELSE PyInt(q))

\* variant: the quotient is rounded to nearest instead of truncated
SceneIdxRound(t) ==
  Min(LastScene, PyInt(RAdd(RDiv(t, scene_dur), <<1, 2>>)))

\* variant: no min(5, ...)
SceneIdxNoClamp(t) == PyInt(RDiv(t, scene_dur))

\* scene_idx = min(5, int(t / scene_dur))
SceneIdx(t) == Min(LastScene, PyInt(RDiv(t, scene_dur)))

\* scene_t = t - scene_idx * scene_dur; progress = scene_t / scene_dur
SceneT(t, idx) == RSub(t, RMul(RInt(idx), scene_dur))
Progress(t, idx) == RDiv(SceneT(t, idx), scene_dur)

\* ------------------------------------------------------------ fade weights
\* variant: a cross-fade of 2.5 s
fade_dur_long == <<5, 2>>

fade_dur == <<1, 2>>
open_fade == <<4, 5>>
close_fade == <<3, 2>>

TimeInScene(t, idx) == RSub(t, RMul(RInt(idx), scene_dur))
TimeToEnd(t, idx) == RSub(RMul(RInt(idx + 1), scene_dur), t)

\* variant: the entry fade is linear, not eased
EntryWeightLinear(t, idx) ==
  IF idx > 0 /\ RLt(TimeInScene(t, idx), fade_dur)
  THEN RMax(RInt(0), RDiv(TimeInScene(t, idx), fade_dur))
  ELSE RInt(1)

\* "if scene_idx > 0 and time_in_scene < fade_dur": the factor that scales arr
EntryWeight(t, idx) ==
  IF idx > 0 /\ RLt(TimeInScene(t, idx), fade_dur)
  THEN ease_in_out_cubic(RDiv(TimeInScene(t, idx), fade_dur))
  ELSE RInt(1)

\* variant: the last scene fades out like the others
ExitWeightNoGuard(t, idx) ==
  IF RLt(TimeToEnd(t, idx), fade_dur)
  THEN ease_in_out_cubic(RDiv(TimeToEnd(t, idx), fade_dur))
  ELSE RInt(1)

\* "if scene_idx < 5 and time_to_end < fade_dur"
ExitWeight(t, idx) ==
  IF idx < LastScene /\ RLt(TimeToEnd(t, idx), fade_dur)
  THEN ease_in_out_cubic(RDiv(TimeToEnd(t, idx), fade_dur))
  ELSE RInt(1)

\* variant: the opening and closing fade durations are exchanged
GlobalWeightSwapped(t) ==
  IF RLt(t, close_fade)
  THEN ease_in_out_cubic(RDiv(t, close_fade))
  ELSE IF RLt(RSub(RInt(DURATION), open_fade), t)
       THEN ease_in_out_cubic(RDiv(RSub(RInt(DURATION), t), open_fade))
       ELSE RInt(1)

\* "if t < 0.8: ... elif t > DURATION - 1.5: ..."
GlobalWeight(t) ==
  IF RLt(t, open_fade)
  THEN ease_in_out_cubic(RDiv(t, open_fade))
  ELSE IF RLt(RSub(RInt(DURATION), close_fade), t)
       THEN ease_in_out_cubic(RDiv(RSub(RInt(DURATION), t), close_fade))
       ELSE RInt(1)

\* One channel of the returned raster: arr * weights, np.clip(arr, 0, 255),
\* astype(np.uint8) (truncation of a value already in [0, 255])
FadeChannel(raw, we, wx, wg) ==
  LET v == RMul(RMul(RMul(RInt(raw), we), wx), wg)
      c == RMax(RInt(0), RMin(RInt(255), v))
  IN  PyInt(c)

\* ---------------------------------------------- binary64 at the endpoints
\* A double that is a multiple of 2^-52, as sign and magnitude; the magnitude
\* is hi * 2^26 + lo in units of 2^-52.  Enough for ease_out_back and
\* ease_out_elastic at the clamped endpoints 0 and 1, where every product is
\* by -1, 0 or 1 and only the additions round.
HalfWord == 2 ^ 26

FZero == [neg |-> FALSE, hi |-> 0, lo |-> 0]
FOne == [neg |-> FALSE, hi |-> HalfWord, lo |-> 0]
FFromBit(b) == IF b = 0 THEN FZero ELSE FOne

MagLt(a, b) == a.hi < b.hi \/ (a.hi = b.hi /\ a.lo < b.lo)
MagAdd(a, b) ==
  LET lo == a.lo + b.lo
  IN  [hi |-> a.hi + b.hi + (lo \div HalfWord), lo |-> lo % HalfWord]
\* a >= b in magnitude
MagSub(a, b) ==
  IF a.lo >= b.lo
  THEN [hi |-> a.hi - b.hi, lo |-> a.lo - b.lo]
  ELSE [hi |-> a.hi - b.hi - 1, lo |-> a.lo + HalfWord - b.lo]

FSigned(neg, m) ==
  [neg |-> neg /\ (m.hi # 0 \/ m.lo # 0), hi |-> m.hi, lo |-> m.lo]

\* the exact sum
ExactAdd(a, b) ==
  IF a.neg = b.neg
  THEN FSigned(a.neg, MagAdd(a, b))
  ELSE IF MagLt(a, b)
       THEN FSigned(b.neg, MagSub(b, a))
       ELSE FSigned(a.neg, MagSub(a, b))

\* spacing of the doubles around a magnitude, in units of 2^-52:
\* 1 below 2, 2 in [2, 4), 4 in [4, 8)
Spacing(m) ==
  IF m.hi < 2 * HalfWord THEN 1 ELSE IF m.hi < 4 * HalfWord THEN 2 ELSE 4

\* round to nearest, ties to even
RoundNearestEven(x) ==
  LET q == Spacing(x)
      r == x.lo % q
      down == x.lo - r
      up == down + q
      lo == IF 2 * r < q THEN down
            ELSE IF 2 * r > q THEN up
            ELSE IF (down \div q) % 2 = 0 THEN down ELSE up
  IN  IF lo = HalfWord
      THEN [neg |-> x.neg, hi |-> x.hi + 1, lo |-> 0]
      ELSE [neg |-> x.neg, hi |-> x.hi, lo |-> lo]

FAdd(a, b) == RoundNearestEven(ExactAdd(a, b))

\* x * k for k in {-1, 0, 1}: exact
FMulUnit(x, k) ==
  IF k = 0 THEN FZero
  ELSE IF k = 1 THEN x
  ELSE FSigned(~x.neg, x)

\* the double nearest to 1.70158: 7663235053941089 * 2^-52
c1 == [neg |-> FALSE, hi |-> 114191100, lo |-> 54030689]
\* c3 = c1 + 1
c3 == FAdd(c1, FOne)

\* t = max(0.0, min(1.0, t)) for an argument that clamps to an endpoint
ClampedBit(x) ==
  LET t == RMax(RInt(0), RMin(RInt(1), x))
  IN  t[1]

\* 1 + c3 * pow(t - 1, 3) + c1 * pow(t - 1, 2), t clamped to 0 or 1
ease_out_back(x) ==
  LET t == ClampedBit(x)
      p3 == (t - 1) * (t - 1) * (t - 1)
      p2 == (t - 1) * (t - 1)
  IN  FAdd(FAdd(FOne, FMulUnit(c3, p3)), FMulUnit(c1, p2))

\* "if t == 0 or t == 1: return t"; the sine formula of interior progress is
\* outside the modelled domain
ease_out_elastic(x) ==
  LET t == ClampedBit(x)
  IN  IF t = 0 \/ t = 1 THEN FFromBit(t) ELSE [neg |-> FALSE, hi |-> -1, lo |-> -1]

\* ------------------------------------------- the process-wide generator
\* np.random.seed(seed)
NpSeed(seed) == [seed |-> seed, pos |-> 0]
\* np.random.random(): the value returned, and the generator after it
NpValue(g) == <<g.seed, g.pos>>
NpNext(g) == [g EXCEPT !.pos = @ + 1]

\* the count and seed each scene renderer passes to draw_floating_particles
ParticleArgs ==
  [ scene_intro |-> [count |-> 15, seed |-> 42],
    scene_models |-> [count |-> 10, seed |-> 99],
    scene_routing |-> [count |-> 8, seed |-> 77],
    scene_comparison |-> [count |-> 8, seed |-> 55],
    scene_pricing |-> [count |-> 8, seed |-> 33],
    scene_outro |-> [count |-> 25, seed |-> 11] ]

Count(scene) == Min(ParticleArgs[scene].count, ParticleCap)
\* speed, px, py and size each take one np.random.random()
DrawsPerParticle == 4
DrawsOf(scene) == DrawsPerParticle * Count(scene)

RECURSIVE TakeDraws(_, _)
TakeDraws(g, k) ==
  IF k = 0 THEN << >> ELSE <<NpValue(g)>> \o TakeDraws(NpNext(g), k - 1)

RECURSIVE Advance(_, _)
Advance(g, k) == IF k = 0 THEN g ELSE Advance(NpNext(g), k - 1)

\* variant: the call does not reseed
ReseedKeep(g, seed) == g

\* the generator after line 144 of a call with this seed
Reseed(g, seed) == NpSeed(seed)

\* the particles of one call, from the draws it consumed: the i-th particle
\* takes draws 4i+1..4i+4 and the colour colors[i % 3]
ParticlesOf(draws, count, palette) ==
  LET cols == <<palette.accent_blue, palette.accent_purple, palette.accent_cyan>>
  IN  [ i \in 1 .. count |->
        [ speed |-> draws[DrawsPerParticle * (i - 1) + 1],
          bx |-> draws[DrawsPerParticle * (i - 1) + 2],
          by |-> draws[DrawsPerParticle * (i - 1) + 3],
          size |-> draws[DrawsPerParticle * (i - 1) + 4],
          color |-> cols[((i - 1) % 3) + 1] ] ]

\* ------------------------------------------------------------ make_frame
\* What make_frame(t) resolves and returns, given the draws its scene
\* renderer consumed.  The raster is a function of these fields.
FrameOf(t, draws, palette) ==
  LET idx == SceneIdx(t)
  IN  IF ~PyIndexOk(scenes, idx)
      THEN [ raised |-> TRUE, t |-> t, scene_idx |-> idx, scene |-> "IndexError",
             progress |-> Progress(t, idx), particles |-> << >>,
             entry |-> RInt(1), exit |-> RInt(1), global |-> RInt(1) ]
      ELSE [ raised |-> FALSE, t |-> t, scene_idx |-> idx,
             scene |-> PyIndex(scenes, idx),
             progress |-> Progress(t, idx),
             particles |-> ParticlesOf(draws, Count(PyIndex(scenes, idx)), palette),
             entry |-> EntryWeight(t, idx),
             exit |-> ExitWeight(t, idx),
             global |-> GlobalWeight(t) ]

Raises(t) == ~PyIndexOk(scenes, SceneIdx(t))
SceneAt(t) == PyIndex(scenes, SceneIdx(t))

NoFrame ==
  [ raised |-> FALSE, t |-> RInt(0), scene_idx |-> 0, scene |-> "none",
    progress |-> RInt(0), particles |-> << >>,
    entry |-> RInt(1), exit |-> RInt(1), global |-> RInt(1) ]

\* ------------------------------------------------------------------ state
Procs == {1, 2}
Workers == {1, 2}
FreshSeeds == {0, 42}

VARIABLES
  rng,     \* per process: the state of the global NumPy generator
  colors,  \* the COLORS global
  home,    \* the process each worker runs in
  pc,      \* per worker: "off", "ready", "seed", "draw", "done"
  call,    \* per worker: the call it makes, [fn, x]
  acc,     \* per worker: the draws its call has consumed so far
  pre,     \* per worker: the generator of its process when its call began
  ret      \* per worker: what its call returned, [kind, frame, value]

vars == <<rng, colors, home, pc, call, acc, pre, ret>>

NoCall == [fn |-> "none", x |-> RInt(0)]
NoRet == [kind |-> "none", frame |-> NoFrame, value |-> RInt(0)]

InTime(w) == call[w].x

\* make_frame as one step of a single-threaded process
MakeFrame(w) ==
  /\ pc[w] = "ready"
  /\ call[w].fn = "make_frame"
  /\ LET t == InTime(w)
         p == home[w]
     IN  IF Raises(t)
         THEN /\ rng' = rng
              /\ ret' = [ret EXCEPT ![w] =
                   [kind |-> "frame", frame |-> FrameOf(t, << >>, colors),
                    value |-> RInt(0)]]
         ELSE LET args == ParticleArgs[SceneAt(t)]
                  k == DrawsOf(SceneAt(t))
                  g == Reseed(rng[p], args.seed)
              IN  /\ rng' = [rng EXCEPT ![p] = Advance(g, k)]
                  /\ ret' = [ret EXCEPT ![w] =
                       [kind |-> "frame",
                        frame |-> FrameOf(t, TakeDraws(g, k), colors),
                        value |-> RInt(0)]]
  /\ pre' = [pre EXCEPT ![w] = rng[home[w]]]
  /\ pc' = [pc EXCEPT ![w] = "done"]
  /\ UNCHANGED <<colors, home, call, acc>>

SeqTicks == { n \in Ticks : (n + NegSecs * Res) % (SeqStride * Res) = 0 }

\* the single-threaded caller asks for another frame
Again(w) ==
  /\ pc[w] = "done"
  /\ \E n \in SeqTicks :
       call' = [call EXCEPT ![w] = [fn |-> "make_frame", x |-> Time(n)]]
  /\ pc' = [pc EXCEPT ![w] = "ready"]
  /\ ret' = [ret EXCEPT ![w] = NoRet]
  /\ pre' = [pre EXCEPT ![w] = rng[home[w]]]
  /\ UNCHANGED <<rng, colors, home, acc>>

EaseInOutCubicCall(w) ==
  /\ pc[w] = "ready"
  /\ call[w].fn = "ease_in_out_cubic"
  /\ ret' = [ret EXCEPT ![w] =
       [kind |-> "rat", frame |-> NoFrame, value |-> ease_in_out_cubic(call[w].x)]]
  /\ pc' = [pc EXCEPT ![w] = "done"]
  /\ UNCHANGED <<rng, colors, home, call, acc, pre>>

EaseOutBackCall(w) ==
  /\ pc[w] = "ready"
  /\ call[w].fn = "ease_out_back"
  /\ ret' = [ret EXCEPT ![w] =
       [kind |-> "float", frame |-> NoFrame, value |-> ease_out_back(call[w].x)]]
  /\ pc' = [pc EXCEPT ![w] = "done"]
  /\ UNCHANGED <<rng, colors, home, call, acc, pre>>

EaseOutElasticCall(w) ==
  /\ pc[w] = "ready"
  /\ call[w].fn = "ease_out_elastic"
  /\ ret' = [ret EXCEPT ![w] =
       [kind |-> "float", frame |-> NoFrame, value |-> ease_out_elastic(call[w].x)]]
  /\ pc' = [pc EXCEPT ![w] = "done"]
  /\ UNCHANGED <<rng, colors, home, call, acc, pre>>

\* ---------------------------------------------------- one call, any input
EaseArgs == { Rat(k, 2) : k \in (-(2 * EaseRange)) .. (2 * EaseRange + 2) }
EndpointArgs == { RInt(k) : k \in (-EaseRange) .. (EaseRange + 1) }

Calls ==
  { [fn |-> "make_frame", x |-> Time(n)] : n \in Ticks }
    \cup { [fn |-> "ease_in_out_cubic", x |-> a] : a \in EaseArgs }
    \cup { [fn |-> f, x |-> a] : f \in {"ease_out_back", "ease_out_elastic"},
                                  a \in EndpointArgs }

FreshRng == [Procs -> { NpSeed(s) : s \in FreshSeeds }]

Init ==
  /\ rng \in FreshRng
  /\ colors = COLORS
  /\ home = [w \in Workers |-> w]
  /\ \E c \in Calls : call = [w \in Workers |-> IF w = 1 THEN c ELSE NoCall]
  /\ pc = [w \in Workers |-> IF w = 1 THEN "ready" ELSE "off"]
  /\ acc = [w \in Workers |-> << >>]
  /\ pre = [w \in Workers |-> rng[home[w]]]
  /\ ret = [w \in Workers |-> NoRet]

Next ==
  \E w \in Workers :
    \/ MakeFrame(w)
    \/ EaseInOutCubicCall(w)
    \/ EaseOutBackCall(w)
    \/ EaseOutElasticCall(w)

Spec == Init /\ [][Next]_vars

\* ------------------------------------- frames in sequence, two processes
\* Two single-threaded processes, each rendering any sequence of frames.
InitSeq ==
  /\ rng \in FreshRng
  /\ colors = COLORS
  /\ home = [w \in Workers |-> w]
  /\ call \in [Workers -> { [fn |-> "make_frame", x |-> Time(n)] : n \in SeqTicks }]
  /\ pc = [w \in Workers |-> "ready"]
  /\ acc = [w \in Workers |-> << >>]
  /\ pre = [w \in Workers |-> rng[home[w]]]
  /\ ret = [w \in Workers |-> NoRet]

NextSeq == \E w \in Workers : MakeFrame(w) \/ Again(w)

SpecSeq == InitSeq /\ [][NextSeq]_vars

\* ------------------------------------------ two threads of one process
\* make_frame up to the scene renderer's call of draw_floating_particles
BeginFrame(w) ==
  /\ pc[w] = "ready"
  /\ call[w].fn = "make_frame"
  /\ pre' = [pre EXCEPT ![w] = rng[home[w]]]
  /\ IF Raises(InTime(w))
     THEN /\ ret' = [ret EXCEPT ![w] =
               [kind |-> "frame", frame |-> FrameOf(InTime(w), << >>, colors),
                value |-> RInt(0)]]
          /\ pc' = [pc EXCEPT ![w] = "done"]
     ELSE /\ ret' = ret
          /\ pc' = [pc EXCEPT ![w] = "seed"]
  /\ UNCHANGED <<rng, colors, home, call, acc>>

\* np.random.seed(seed)
SeedStep(w) ==
  /\ pc[w] = "seed"
  /\ rng' = [rng EXCEPT ![home[w]] = Reseed(@, ParticleArgs[SceneAt(InTime(w))].seed)]
  /\ pc' = [pc EXCEPT ![w] = "draw"]
  /\ UNCHANGED <<colors, home, call, acc, pre, ret>>

\* one np.random.random()
DrawStep(w) ==
  /\ pc[w] = "draw"
  /\ Len(acc[w]) < DrawsOf(SceneAt(InTime(w)))
  /\ acc' = [acc EXCEPT ![w] = Append(@, NpValue(rng[home[w]]))]
  /\ rng' = [rng EXCEPT ![home[w]] = NpNext(@)]
  /\ UNCHANGED <<colors, home, pc, call, pre, ret>>

\* the rest of the renderer and of make_frame: local to the call
EndFrame(w) ==
  /\ pc[w] = "draw"
  /\ Len(acc[w]) = DrawsOf(SceneAt(InTime(w)))
  /\ ret' = [ret EXCEPT ![w] =
       [kind |-> "frame", frame |-> FrameOf(InTime(w), acc[w], colors),
        value |-> RInt(0)]]
  /\ pc' = [pc EXCEPT ![w] = "done"]
  /\ UNCHANGED <<rng, colors, home, call, acc, pre>>

ThreadTicks == { n \in SeqTicks : 0 <= n /\ n < DURATION * Res }

InitThreads ==
  /\ rng \in FreshRng
  /\ colors = COLORS
  /\ home = [w \in Workers |-> 1]
  /\ \E n1 \in ThreadTicks, n2 \in ThreadTicks :
       /\ n1 < n2
       /\ call = [w \in Workers |->
            [fn |-> "make_frame", x |-> Time(IF w = 1 THEN n1 ELSE n2)]]
  /\ pc = [w \in Workers |-> "ready"]
  /\ acc = [w \in Workers |-> << >>]
  /\ pre = [w \in Workers |-> rng[home[w]]]
  /\ ret = [w \in Workers |-> NoRet]

NextThreads ==
  \E w \in Workers : BeginFrame(w) \/ SeedStep(w) \/ DrawStep(w) \/ EndFrame(w)

SpecThreads == InitThreads /\ [][NextThreads]_vars

\* ------------------------------------------------------------- properties
DoneFrame(w) == pc[w] = "done" /\ ret[w].kind = "frame"
Returned(w) == DoneFrame(w) /\ ~ret[w].frame.raised
DoneEase(w, fn) == pc[w] = "done" /\ call[w].fn = fn
InRange(t) == RLe(RInt(0), t) /\ RLt(t, RInt(DURATION))
Combined(f) == RMul(f.entry, f.exit)

\* C1: for every t in [0, DURATION) make_frame selects the one scene k in
\* 0..5 with 4k <= t < 4k + 4, the progress it passes on is in [0, 1), and
\* at t = 4k exactly it is scene k with progress 0.
C1_Partition ==
  \A w \in Workers :
    (DoneFrame(w) /\ InRange(ret[w].frame.t)) =>
      LET f == ret[w].frame
      IN  /\ ~f.raised
          /\ f.scene_idx \in 0 .. 5
          /\ f.scene = scenes[f.scene_idx + 1]
          /\ \A k \in 0 .. 5 :
               (RLe(RInt(4 * k), f.t) /\ RLt(f.t, RInt(4 * k + 4))) <=> k = f.scene_idx
          /\ RLe(RInt(0), f.progress) /\ RLt(f.progress, RInt(1))
          /\ \A k \in 0 .. 5 :
               f.t = RInt(4 * k) => (f.scene_idx = k /\ f.progress = RInt(0))

C1_Witness ==
  \E w \in Workers :
    /\ DoneFrame(w)
    /\ ret[w].frame.t = RInt(8)
    /\ ret[w].frame.scene = "scene_routing"
    /\ ret[w].frame.progress = RInt(0)

\* C2: at t = 12 the scene index is 2, the progress is about one
\* half and the entry, exit and global weights are all 1.
C2_Original ==
  \A w \in Workers :
    (DoneFrame(w) /\ ret[w].frame.t = RInt(12)) =>
      LET f == ret[w].frame
      IN  /\ f.scene_idx = 2
          /\ RLt(<<1, 4>>, f.progress) /\ RLt(f.progress, <<3, 4>>)
          /\ f.entry = RInt(1) /\ f.exit = RInt(1) /\ f.global = RInt(1)

\* C2, as the code resolves it: t = 12 is the start of scene 3: scene index 3, progress 0,
\* entry weight 0 (a black frame), exit and global weights 1.  The middle of
\* scene 2 is t = 10: scene index 2, progress 1/2, all three weights 1.
C2_Midpoint ==
  \A w \in Workers :
    DoneFrame(w) =>
      LET f == ret[w].frame
      IN  /\ f.t = RInt(12) =>
               /\ f.scene_idx = 3 /\ f.scene = "scene_comparison"
               /\ f.progress = RInt(0)
               /\ f.entry = RInt(0) /\ f.exit = RInt(1) /\ f.global = RInt(1)
               /\ \A raw \in {0, 1, 128, 255} :
                    FadeChannel(raw, f.entry, f.exit, f.global) = 0
          /\ f.t = RInt(10) =>
               /\ f.scene_idx = 2 /\ f.progress = <<1, 2>>
               /\ f.entry = RInt(1) /\ f.exit = RInt(1) /\ f.global = RInt(1)

C2_Witness ==
  \E w \in Workers :
    DoneFrame(w) /\ ret[w].frame.t = RInt(12) /\ ret[w].frame.entry = RInt(0)

\* C3: for every t outside [0, DURATION) the index used on the scene table
\* is in 0..5 and the call does not raise.
C3_Clamped ==
  \A w \in Workers :
    (DoneFrame(w) /\ ~InRange(ret[w].frame.t)) =>
      (~ret[w].frame.raised /\ ret[w].frame.scene_idx \in 0 .. 5)

\* C4: two calls of make_frame with the same t return the same frame,
\* whatever frames each process rendered before (none included).
C4_FrameOrderIndependent ==
  \A v \in Workers, w \in Workers :
    (DoneFrame(v) /\ DoneFrame(w) /\ ret[v].frame.t = ret[w].frame.t) =>
      ret[v].frame = ret[w].frame

C4_Witness ==
  /\ Returned(1) /\ Returned(2)
  /\ ret[1].frame.t = ret[2].frame.t
  /\ pre[1] # pre[2]
  /\ pre[1].pos > 0
  /\ pre[2].seed \in FreshSeeds /\ pre[2].pos = 0
  /\ ret[1].frame.particles # << >>

\* C5: a call of make_frame leaves the process-wide state as it found it:
\* the global generator and COLORS.
C5_NoSideEffect ==
  \A w \in Workers :
    DoneFrame(w) => (rng[home[w]] = pre[w] /\ colors = COLORS)

\* the frame make_frame(t) returns when nothing else runs
AloneFrame(t) ==
  IF Raises(t)
  THEN FrameOf(t, << >>, COLORS)
  ELSE FrameOf(t, TakeDraws(NpSeed(ParticleArgs[SceneAt(t)].seed),
                            DrawsOf(SceneAt(t))), COLORS)

\* C6: under every interleaving of two unsynchronized calls on two threads,
\* each call returns the frame it returns when run alone.
C6_ThreadsIsolated ==
  \A w \in Workers : DoneFrame(w) => ret[w].frame = AloneFrame(ret[w].frame.t)

\* the combined scene weight make_frame applies at time t
CombinedAt(t) == RMul(EntryWeight(t, SceneIdx(t)), ExitWeight(t, SceneIdx(t)))

\* C7: the combined scene weight entry * exit is 0 at every interior scene
\* change t = 4k, is 1 at least half a second away from both ends of the
\* scene, and at t = 4k + d, 0 < d < 1/2, equals its value at t = 4k - d.
C7_BoundaryContinuity ==
  \A w \in Workers :
    Returned(w) =>
      LET f == ret[w].frame
      IN  \A k \in 0 .. 5 :
            /\ (k >= 1 /\ f.t = RInt(4 * k)) => Combined(f) = RInt(0)
            /\ ( RLe(RAdd(RInt(4 * k), <<1, 2>>), f.t)
                 /\ RLe(f.t, RSub(RInt(4 * k + 4), <<1, 2>>)) ) =>
                 Combined(f) = RInt(1)
            /\ ( k >= 1 /\ RLt(RInt(4 * k), f.t)
                 /\ RLt(f.t, RAdd(RInt(4 * k), <<1, 2>>)) ) =>
                 /\ Combined(f) = CombinedAt(RSub(RInt(8 * k), f.t))
                 /\ RLt(RInt(0), Combined(f)) /\ RLt(Combined(f), RInt(1))

C7_Witness ==
  \E w \in Workers :
    /\ Returned(w)
    /\ RLt(RInt(4), ret[w].frame.t) /\ RLt(ret[w].frame.t, <<9, 2>>)
    /\ RLt(RInt(0), Combined(ret[w].frame))
    /\ RLt(Combined(ret[w].frame), RInt(1))

\* C8: for every t >= DURATION the scene index is 5 and the last scene is
\* rendered.
C8_FinalFrame ==
  \A w \in Workers :
    (DoneFrame(w) /\ RLe(RInt(24), ret[w].frame.t)) =>
      /\ ~ret[w].frame.raised
      /\ ret[w].frame.scene_idx = 5
      /\ ret[w].frame.scene = "scene_outro"

C8_Witness ==
  \E w \in Workers :
    DoneFrame(w) /\ ret[w].frame.t = RInt(24) /\ ret[w].frame.scene_idx = 5

\* C9: the global weight is ease_in_out_cubic(t / 0.8) for t < 0.8,
\* ease_in_out_cubic((24 - t) / 1.5) for t > 22.5 and 1 otherwise; at t = 0
\* it is 0 and every channel of the raster is 0; at t = 23.9 it is below 1.
C9_GlobalFade ==
  \A w \in Workers :
    Returned(w) =>
      LET f == ret[w].frame
      IN  /\ RLt(f.t, <<4, 5>>) =>
               f.global = ease_in_out_cubic(RDiv(f.t, <<4, 5>>))
          /\ RLt(<<45, 2>>, f.t) =>
               f.global = ease_in_out_cubic(RDiv(RSub(RInt(24), f.t), <<3, 2>>))
          /\ (RLe(<<4, 5>>, f.t) /\ RLe(f.t, <<45, 2>>)) => f.global = RInt(1)
          /\ f.t = RInt(0) =>
               /\ f.global = RInt(0)
               /\ \A raw \in 0 .. 255 :
                    FadeChannel(raw, f.entry, f.exit, f.global) = 0
          /\ f.t = <<2, 5>> => f.global = <<1, 2>>
          /\ f.t = <<239, 10>> =>
               (f.global = <<4, 3375>> /\ RLt(f.global, RInt(1)))

C9_Witness ==
  \E w \in Workers :
    /\ Returned(w)
    /\ ret[w].frame.t = RInt(0)
    /\ ret[w].frame.global = RInt(0)
    /\ ret[w].frame.entry = RInt(1) /\ ret[w].frame.exit = RInt(1)

\* C10: ease_in_out_cubic, ease_out_back and ease_out_elastic each return
\* exactly 0 at 0 and exactly 1 at 1.
C10_EasingEndpoints ==
  \A w \in Workers :
    /\ (DoneEase(w, "ease_in_out_cubic") /\ call[w].x = RInt(0)) =>
         ret[w].value = RInt(0)
    /\ (DoneEase(w, "ease_in_out_cubic") /\ call[w].x = RInt(1)) =>
         ret[w].value = RInt(1)
    /\ \A fn \in {"ease_out_back", "ease_out_elastic"} :
         /\ (DoneEase(w, fn) /\ call[w].x = RInt(0)) => ret[w].value = FZero
         /\ (DoneEase(w, fn) /\ call[w].x = RInt(1)) => ret[w].value = FOne

\* ------------------------------------------------------ colour utilities
\* variant: t is not clamped to [0, 1]
lerp_color_unclamped(ca, cb, t0) ==
  [ i \in 1 .. 3 |-> PyInt(RAdd(RInt(ca[i]), RMul(RInt(cb[i] - ca[i]), t0))) ]

\* t = max(0, min(1, t)); tuple(int(c1[i] + (c2[i] - c1[i]) * t) for i in range(3))
lerp_color(ca, cb, t0) ==
  LET t == RMax(RInt(0), RMin(RInt(1), t0))
  IN  [ i \in 1 .. 3 |-> PyInt(RAdd(RInt(ca[i]), RMul(RInt(cb[i] - ca[i]), t))) ]

\* variant: the scaled channel is not clamped
alpha_color_unclamped(color, alpha) ==
  [ i \in 1 .. 3 |-> PyInt(RMul(RInt(color[i]), alpha)) ]

\* tuple(max(0, min(255, int(c * alpha))) for c in color)
alpha_color(color, alpha) ==
  [ i \in 1 .. 3 |-> Max(0, Min(255, PyInt(RMul(RInt(color[i]), alpha)))) ]

AlphaColorCall(w) ==
  /\ pc[w] = "ready"
  /\ call[w].fn = "alpha_color"
  /\ ret' = [ret EXCEPT ![w] =
       [kind |-> "color", frame |-> NoFrame,
        value |-> alpha_color(call[w].color, call[w].alpha)]]
  /\ pc' = [pc EXCEPT ![w] = "done"]
  /\ UNCHANGED <<rng, colors, home, call, acc, pre>>

LerpColorCall(w) ==
  /\ pc[w] = "ready"
  /\ call[w].fn = "lerp_color"
  /\ ret' = [ret EXCEPT ![w] =
       [kind |-> "color", frame |-> NoFrame,
        value |-> lerp_color(call[w].c1, call[w].c2, call[w].t)]]
  /\ pc' = [pc EXCEPT ![w] = "done"]
  /\ UNCHANGED <<rng, colors, home, call, acc, pre>>

\* 8-bit colours: the palette, black and a colour of extreme channels
Palette == { COLORS[k] : k \in DOMAIN COLORS } \cup { <<0, 0, 0>>, <<1, 127, 254>> }
Quarters == { Rat(k, 4) : k \in (-(4 * AlphaRange)) .. (4 * AlphaRange) }

ColorCalls ==
  { [fn |-> "alpha_color", color |-> c, alpha |-> a] : c \in Palette, a \in Quarters }
    \cup { [fn |-> "lerp_color", c1 |-> ca, c2 |-> cb, t |-> t] :
             ca \in Palette, cb \in Palette, t \in Quarters }

\* ------------------------------------------------------ draw_rounded_rect
\* variant: half the side is rounded up
RectRadiusCeil(x1, y1, x2, y2, radius) ==
  IF x2 - x1 < 2 * radius \/ y2 - y1 < 2 * radius
  THEN Max(0, Min((x2 - x1 + 1) \div 2, (y2 - y1 + 1) \div 2))
  ELSE radius

\* "if x2 - x1 < 2 * radius or y2 - y1 < 2 * radius:
\*      radius = max(0, min((x2 - x1) // 2, (y2 - y1) // 2))"
RectRadius(x1, y1, x2, y2, radius) ==
  IF x2 - x1 < 2 * radius \/ y2 - y1 < 2 * radius
  THEN Max(0, Min((x2 - x1) \div 2, (y2 - y1) \div 2))
  ELSE radius

Shape(op, l, t, r, b) == [op |-> op, box |-> <<l, t, r, b>>]

\* the calls on the drawing surface, in order
draw_rounded_rect(x1, y1, x2, y2, radius0, fill, outline) ==
  LET radius == RectRadius(x1, y1, x2, y2, radius0)
      filled ==
        IF fill
        THEN << Shape("rectangle", x1 + radius, y1, x2 - radius, y2),
                Shape("rectangle", x1, y1 + radius, x2, y2 - radius),
                Shape("pieslice", x1, y1, x1 + 2 * radius, y1 + 2 * radius),
                Shape("pieslice", x2 - 2 * radius, y1, x2, y1 + 2 * radius),
                Shape("pieslice", x1, y2 - 2 * radius, x1 + 2 * radius, y2),
                Shape("pieslice", x2 - 2 * radius, y2 - 2 * radius, x2, y2) >>
        ELSE << >>
      outlined ==
        IF outline
        THEN << Shape("arc", x1, y1, x1 + 2 * radius, y1 + 2 * radius),
                Shape("arc", x2 - 2 * radius, y1, x2, y1 + 2 * radius),
                Shape("arc", x1, y2 - 2 * radius, x1 + 2 * radius, y2),
                Shape("arc", x2 - 2 * radius, y2 - 2 * radius, x2, y2),
                Shape("line", x1 + radius, y1, x2 - radius, y1),
                Shape("line", x1 + radius, y2, x2 - radius, y2),
                Shape("line", x1, y1 + radius, x1, y2 - radius),
                Shape("line", x2, y1 + radius, x2, y2 - radius) >>
        ELSE << >>
  IN  IF x2 <= x1 \/ y2 <= y1
      THEN [radius |-> radius, drawn |-> << >>]
      ELSE [radius |-> radius, drawn |-> filled \o outlined]

RoundedRectCall(w) ==
  /\ pc[w] = "ready"
  /\ call[w].fn = "draw_rounded_rect"
  /\ ret' = [ret EXCEPT ![w] =
       [kind |-> "shapes", frame |-> NoFrame,
        value |-> draw_rounded_rect(call[w].x1, call[w].y1, call[w].x2, call[w].y2,
                                    call[w].radius, call[w].fill, call[w].outline)]]
  /\ pc' = [pc EXCEPT ![w] = "done"]
  /\ UNCHANGED <<rng, colors, home, call, acc, pre>>

RectCalls ==
  { [fn |-> "draw_rounded_rect", x1 |-> a, y1 |-> b, x2 |-> c, y2 |-> d,
     radius |-> r, fill |-> f, outline |-> o] :
      a \in 0 .. RectMax, b \in 0 .. RectMax, c \in 0 .. RectMax, d \in 0 .. RectMax,
      r \in 0 .. RectMax, f \in BOOLEAN, o \in BOOLEAN }

\* ------------------------------------------------ draw_floating_particles
\* What one call draws: per particle its four draws and colour, the position
\* and size handed to draw_particle (terms over the draws and t), and alpha.
ParticleField(draws, count, t, palette) ==
  LET base == ParticlesOf(draws, count, palette)
  IN  [ i \in 1 .. count |->
        [ base |-> base[i],
          px |-> <<"px", base[i].bx, t, base[i].speed>>,
          py |-> <<"py", base[i].by, t, base[i].speed, i - 1>>,
          alpha |-> <<"alpha", t, i - 1>> ] ]

\* draw_floating_particles(draw, w, h, t, count, seed) in a single-threaded
\* process
ParticlesCall(w) ==
  /\ pc[w] = "ready"
  /\ call[w].fn = "draw_floating_particles"
  /\ LET k == DrawsPerParticle * call[w].count
         g == Reseed(rng[home[w]], call[w].seed)
     IN  /\ rng' = [rng EXCEPT ![home[w]] = Advance(g, k)]
         /\ ret' = [ret EXCEPT ![w] =
              [kind |-> "particles", frame |-> NoFrame,
               value |-> ParticleField(TakeDraws(g, k), call[w].count,
                                       call[w].t, colors)]]
  /\ pre' = [pre EXCEPT ![w] = rng[home[w]]]
  /\ pc' = [pc EXCEPT ![w] = "done"]
  /\ UNCHANGED <<colors, home, call, acc>>

ParticleSeeds == { ParticleArgs[sc].seed : sc \in {"scene_intro", "scene_models"} }
ParticleCalls ==
  { [fn |-> "draw_floating_particles", t |-> RInt(t), count |-> c, seed |-> sd] :
      t \in 0 .. 1, c \in 0 .. MaxCount, sd \in ParticleSeeds }

\* ----------------------------------------------- one call of a drawing utility
\* Worker 1 makes one call; when it is a particle call, worker 2, in another
\* process, makes one too.
InitUtil ==
  /\ rng \in FreshRng
  /\ colors = COLORS
  /\ home = [w \in Workers |-> w]
  /\ \/ /\ \E c \in ColorCalls \cup RectCalls :
             call = [w \in Workers |-> IF w = 1 THEN c ELSE NoCall]
        /\ pc = [w \in Workers |-> IF w = 1 THEN "ready" ELSE "off"]
     \/ /\ call \in [Workers -> ParticleCalls]
        /\ pc = [w \in Workers |-> "ready"]
  /\ acc = [w \in Workers |-> << >>]
  /\ pre = [w \in Workers |-> rng[home[w]]]
  /\ ret = [w \in Workers |-> NoRet]

NextUtil ==
  \E w \in Workers :
    \/ AlphaColorCall(w)
    \/ LerpColorCall(w)
    \/ RoundedRectCall(w)
    \/ ParticlesCall(w)

SpecUtil == InitUtil /\ [][NextUtil]_vars

DoneCall(w, fn) == pc[w] = "done" /\ call[w].fn = fn

\* C11: every channel alpha_color returns is an integer in [0, 255], for any
\* alpha (it saturates at alpha = 2 and is 0 at alpha = -1); every channel
\* lerp_color returns is an integer in [0, 255] between the two input channels.
C11_ColorChannels ==
  \A w \in Workers :
    /\ DoneCall(w, "alpha_color") =>
         \A i \in 1 .. 3 :
           /\ ret[w].value[i] \in 0 .. 255
           /\ call[w].alpha = RInt(2) =>
                ret[w].value[i] = (IF 2 * call[w].color[i] > 255 THEN 255
                                   ELSE 2 * call[w].color[i])
           /\ call[w].alpha = RInt(-1) => ret[w].value[i] = 0
    /\ DoneCall(w, "lerp_color") =>
         \A i \in 1 .. 3 :
           /\ ret[w].value[i] \in 0 .. 255
           /\ ret[w].value[i] >= Min(call[w].c1[i], call[w].c2[i])
           /\ ret[w].value[i] <= Max(call[w].c1[i], call[w].c2[i])

C11_Witness ==
  \E w \in Workers :
    /\ DoneCall(w, "alpha_color")
    /\ call[w].alpha = RInt(2)
    /\ call[w].color = <<140, 80, 255>>
    /\ ret[w].value = <<255, 160, 255>>

\* C12: the i-th particle's speed, base x, base y and size are draws
\* 4i..4i+3 of the stream the seed starts, whatever t, count and the
\* generator before the call; two calls with the same (seed, count, t) draw
\* the same field.
C12_ParticleBase ==
  \A v \in Workers, w \in Workers :
    (DoneCall(v, "draw_floating_particles") /\ DoneCall(w, "draw_floating_particles")) =>
      /\ \A i \in 1 .. call[w].count :
           LET b == ret[w].value[i].base
               d == DrawsPerParticle * (i - 1)
           IN  /\ b.speed = <<call[w].seed, d>>
               /\ b.bx = <<call[w].seed, d + 1>>
               /\ b.by = <<call[w].seed, d + 2>>
               /\ b.size = <<call[w].seed, d + 3>>
      /\ call[v].seed = call[w].seed =>
           \A i \in 1 .. Min(call[v].count, call[w].count) :
             ret[v].value[i].base = ret[w].value[i].base
      /\ call[v] = call[w] => ret[v].value = ret[w].value

C12_Witness ==
  /\ DoneCall(1, "draw_floating_particles") /\ DoneCall(2, "draw_floating_particles")
  /\ call[1].seed = call[2].seed
  /\ call[1].t # call[2].t
  /\ call[1].count = 1 /\ call[2].count = 2
  /\ pre[1] # pre[2]
  /\ ret[1].value[1].base = ret[2].value[1].base

\* C15: draw_rounded_rect draws nothing when x2 <= x1 or y2 <= y1; when it
\* draws, 0 <= radius, 2 * radius <= min(x2 - x1, y2 - y1), and every box it
\* passes has right >= left and bottom >= top.
C15_RoundedRect ==
  \A w \in Workers :
    DoneCall(w, "draw_rounded_rect") =>
      LET c == call[w]
          v == ret[w].value
      IN  /\ (c.x2 <= c.x1 \/ c.y2 <= c.y1) => v.drawn = << >>
          /\ (~c.fill /\ ~c.outline) => v.drawn = << >>
          /\ v.drawn # << >> =>
               /\ 0 <= v.radius
               /\ 2 * v.radius <= Min(c.x2 - c.x1, c.y2 - c.y1)
               /\ \A j \in 1 .. Len(v.drawn) :
                    /\ v.drawn[j].box[3] >= v.drawn[j].box[1]
                    /\ v.drawn[j].box[4] >= v.drawn[j].box[2]

C15_Witness ==
  \E w \in Workers :
    /\ DoneCall(w, "draw_rounded_rect")
    /\ call[w].x2 - call[w].x1 = 3
    /\ call[w].radius = 2
    /\ ret[w].value.radius = 1
    /\ Len(ret[w].value.drawn) = 14

\* ------------------------------------------------------ the encoder loop
\* main(): VideoClip(make_frame, duration=DURATION) written at fps=FPS.  The
\* encoder asks for the frames at t = k / FPS, k = 0 .. DURATION * FPS - 1,
\* one after the other, and appends each returned frame to the file.
FrameCount == DURATION * FPS

Written(f) == [t |-> f.t, scene_idx |-> f.scene_idx, scene |-> f.scene]

WriteFrame(w) ==
  /\ Returned(w)
  /\ acc' = [acc EXCEPT ![w] = Append(@, Written(ret[w].frame))]
  /\ IF Len(acc[w]) + 1 < FrameCount
     THEN /\ call' = [call EXCEPT ![w] =
                [fn |-> "make_frame", x |-> Rat(Len(acc[w]) + 1, FPS)]]
          /\ pc' = [pc EXCEPT ![w] = "ready"]
     ELSE /\ call' = [call EXCEPT ![w] = NoCall]
          /\ pc' = [pc EXCEPT ![w] = "ended"]
  /\ ret' = [ret EXCEPT ![w] = NoRet]
  /\ pre' = [pre EXCEPT ![w] = rng[home[w]]]
  /\ UNCHANGED <<rng, colors, home>>

InitEncode ==
  /\ rng \in FreshRng
  /\ colors = COLORS
  /\ home = [w \in Workers |-> w]
  /\ call = [w \in Workers |->
       IF w = 1 THEN [fn |-> "make_frame", x |-> Rat(0, FPS)] ELSE NoCall]
  /\ pc = [w \in Workers |-> IF w = 1 THEN "ready" ELSE "off"]
  /\ acc = [w \in Workers |-> << >>]
  /\ pre = [w \in Workers |-> rng[home[w]]]
  /\ ret = [w \in Workers |-> NoRet]

NextEncode == \E w \in Workers : MakeFrame(w) \/ WriteFrame(w)

SpecEncode == InitEncode /\ [][NextEncode]_vars

InUnit(a) == RLe(RInt(0), a) /\ RLe(a, RInt(1))

\* C13: the entry weight is ease_in_out_cubic(time_in_scene / 0.5) exactly
\* when the scene is not the first and time_in_scene < 0.5, else 1; the exit
\* weight is ease_in_out_cubic(time_to_end / 0.5) exactly when the scene is
\* not the last and time_to_end < 0.5, else 1.  The first scene has no entry
\* fade and the last scene no exit fade.
C13_SceneWeights ==
  \A w \in Workers :
    Returned(w) =>
      LET f == ret[w].frame
          tis == RSub(f.t, RInt(4 * f.scene_idx))
          tte == RSub(RInt(4 * f.scene_idx + 4), f.t)
      IN  /\ f.entry = (IF f.scene_idx > 0 /\ RLt(tis, <<1, 2>>)
                        THEN ease_in_out_cubic(RMul(tis, RInt(2)))
                        ELSE RInt(1))
          /\ f.exit = (IF f.scene_idx < 5 /\ RLt(tte, <<1, 2>>)
                       THEN ease_in_out_cubic(RMul(tte, RInt(2)))
                       ELSE RInt(1))
          /\ InRange(f.t) =>
               /\ f.scene_idx > 0 <=> f.scene # "scene_intro"
               /\ f.scene_idx < 5 <=> f.scene # "scene_outro"
          /\ f.scene = "scene_intro" => f.entry = RInt(1)
          /\ f.scene = "scene_outro" => f.exit = RInt(1)

C13_Witness ==
  \E w \in Workers :
    /\ Returned(w)
    /\ ret[w].frame.t = <<39, 10>>
    /\ ret[w].frame.exit = <<4, 125>>
    /\ ret[w].frame.entry = RInt(1)

RawSamples == {0, 1, 2, 3, 64, 127, 128, 200, 254, 255}

\* C14: for every t for which make_frame returns, the entry, exit and global
\* weights are in [0, 1], and every channel of the raster is the product of
\* the unfaded channel and the three weights, truncated once: it is in
\* [0, 255] and not above the unfaded channel.
C14_FinalPixel ==
  \A w \in Workers :
    Returned(w) =>
      LET f == ret[w].frame
      IN  /\ InUnit(f.entry) /\ InUnit(f.exit) /\ InUnit(f.global)
          /\ \A raw \in RawSamples :
               LET out == FadeChannel(raw, f.entry, f.exit, f.global)
                   prod == RMul(RInt(raw), RMul(f.entry, RMul(f.exit, f.global)))
               IN  /\ out \in 0 .. 255
                   /\ out <= raw
                   /\ RLe(RInt(out), prod) /\ RLt(prod, RInt(out + 1))

C14_Witness ==
  \E w \in Workers :
    /\ Returned(w)
    /\ ~InRange(ret[w].frame.t)
    /\ ret[w].frame.global = RInt(0)
    /\ FadeChannel(255, ret[w].frame.entry, ret[w].frame.exit, ret[w].frame.global) = 0

C14_WitnessFaded ==
  \E w \in Workers :
    /\ Returned(w)
    /\ ret[w].frame.t = <<41, 10>>
    /\ FadeChannel(255, ret[w].frame.entry, ret[w].frame.exit, ret[w].frame.global) = 8

\* the fade factors of a frame that are below 1
ActiveFades(f) ==
  { n \in {"entry", "exit", "opening", "closing"} :
      \/ n = "entry" /\ RLt(f.entry, RInt(1))
      \/ n = "exit" /\ RLt(f.exit, RInt(1))
      \/ n = "opening" /\ RLt(f.t, <<4, 5>>) /\ RLt(f.global, RInt(1))
      \/ n = "closing" /\ RLt(<<45, 2>>, f.t) /\ RLt(f.global, RInt(1)) }

\* C16: for every t in [0, DURATION] at most one of the entry, exit, opening
\* and closing fades is below 1; the opening fade lies in the first scene
\* before its exit fade, the closing fade in the last scene after its entry
\* fade.
C16_FadesDisjoint ==
  \A w \in Workers :
    ( Returned(w) /\ RLe(RInt(0), ret[w].frame.t)
      /\ RLe(ret[w].frame.t, RInt(24)) ) =>
      LET f == ret[w].frame
      IN  /\ Cardinality(ActiveFades(f)) <= 1
          /\ ~(RLt(f.entry, RInt(1)) /\ RLt(f.exit, RInt(1)))
          /\ RLt(f.t, <<4, 5>>) =>
               (f.scene = "scene_intro" /\ f.exit = RInt(1) /\ RLt(f.global, RInt(1)))
          /\ RLt(<<45, 2>>, f.t) =>
               (f.scene = "scene_outro" /\ f.entry = RInt(1) /\ RLt(f.global, RInt(1)))

C16_Witness ==
  \E w \in Workers :
    /\ Returned(w)
    /\ ret[w].frame.t = <<201, 10>>
    /\ ActiveFades(ret[w].frame) = {"entry"}

\* C17: the encoder asks for frame k at t = k / 30 for k = 0 .. 719 and then
\* ends; frame k is rendered by the one scene of index k \div 120, so the
\* scene index never decreases and each of the six scenes is rendered for
\* exactly 120 consecutive frames.
C17_EncoderFrames ==
  LET written == acc[1]
      n == Len(written)
      names == <<"scene_intro", "scene_models", "scene_routing",
                 "scene_comparison", "scene_pricing", "scene_outro">>
  IN  /\ n <= 720
      /\ pc[1] \in {"ready", "done", "ended"}
      /\ pc[1] = "ended" <=> n = 720
      /\ pc[1] # "ended" => call[1] = [fn |-> "make_frame", x |-> Rat(n, 30)]
      /\ DoneFrame(1) => ~ret[1].frame.raised
      /\ \A i \in 1 .. n :
           /\ written[i].t = Rat(i - 1, 30)
           /\ written[i].scene_idx = (i - 1) \div 120
           /\ written[i].scene = names[written[i].scene_idx + 1]
           /\ i < n => written[i].scene_idx <= written[i + 1].scene_idx
      /\ pc[1] = "ended" =>
           \A k \in 0 .. 5 :
             Cardinality({ i \in 1 .. n : written[i].scene_idx = k }) = 120

C17_Witness ==
  /\ pc[1] = "ended"
  /\ Len(acc[1]) = 720
  /\ acc[1][120].scene = "scene_intro"
  /\ acc[1][121].scene = "scene_models"
  /\ acc[1][720].scene = "scene_outro"

====
